---- MODULE Spec2Model ----
(***************************************************************************)
(* The pan/zoom interaction controller and the data binding of the         *)
(* WorldMap component, in its two variants:                                *)
(*   idx   src/lib/src/index.tsx   pan state kept in useState hooks,       *)
(*                                 updated incrementally per move event    *)
(*   part  src/unnamed/part_000    pan state kept in useRef refs,          *)
(*                                 recomputed from a drag-start snapshot   *)
(* Both variants are fed the same sequence of pointer events.              *)
(*                                                                         *)
(* An event handler is a closure of the render that created it: it reads   *)
(* the hook state of that render (the "view") and queues updates to the    *)
(* hook state; refs are read and written in place.  React re-renders after *)
(* a handler that changed hook state.  mousedown, mouseup, mouseleave and  *)
(* dblclick are flushed before the next event is delivered; the updates of *)
(* a mousemove may still be pending when the next mousemove is handled     *)
(* (coalesced moves), which is the Render action being taken late.         *)
(***************************************************************************)
EXTENDS Integers, Sequences, FiniteSets, TLC

\* -------------------------------------------------------------- bounds
\* the number of pointer events fed to the component
MaxEvents == 5

\* -------------------------------------------------------------- constants
\* the native width of the geometry, the divisor of the scale factor
NativeWidth == 960
\* the fixed vertical offset of the geometry
OffsetY == 240
\* the scale at which a double-click wraps back to 1
MaxScale == 4

VARIABLES
  variant,    \* which implementation is mounted: "idx", "part" or "both"
  width,      \* prop: the rendered width in pixels
  rect,       \* the container's bounding box (left, top), fixed
  richInteraction, \* prop: whether the event handlers are attached
  scheduler,  \* React: whether the render of a mousedown, mouseup or dblclick
              \* takes the queued updates of mousemove and mouseleave
              \* ("flush") or leaves them for a later render ("lanes")
  styleKept,  \* DOM: whether style.transform keeps a value whose
              \* translate(0, 240) has no unit
  idx,        \* index.tsx: hook state
  idxView,    \* index.tsx: hook state captured by the current handlers
  gIdx,       \* index.tsx: transform attribute of the map group on screen
  part,       \* part_000: hook state, refs and the svg's style.transform
  partView,   \* part_000: hook state captured by the current handlers
  gPart,      \* part_000: transform attribute of the map group on screen
  ev,         \* history: the last event handled
  prev,       \* history: idx and part before the last event
  dbl,        \* history: number of events so far if all were double-clicks
  steps,      \* history: number of events handled
  sess,       \* history: the drag session opened by the last pointerDown
  data,       \* prop: the dataset, a sequence of DataItem
  countryValueMap,  \* uppercased country code -> value, of the last render
  minValue,   \* range of the dataset, of the last render
  maxValue,
  contexts,   \* ISO code -> CountryContext, of the last render
  tooltips,   \* ISO code -> tooltip text passed to drawTooltip
  lastRender  \* history: the dataset change behind the last render

vars == <<variant, width, rect, richInteraction, scheduler, styleKept,
         idx, idxView, gIdx, part,
          partView, gPart,
          ev, prev, dbl, steps, sess,
          data, countryValueMap, minValue, maxValue, contexts, tooltips,
          lastRender>>

dataVars == <<data, countryValueMap, minValue, maxValue, contexts, tooltips,
              lastRender>>

\* React.MouseEvent: the fields the handlers read
Events == [clientX : {1, 3}, clientY : {0, 2}]
Widths == {480}
Rects == {[mounted |-> TRUE, left |-> 1, top |-> 0]}
\* containerRef.current is null: the optional chaining yields undefined
NoRect == [mounted |-> FALSE, left |-> 0, top |-> 0]

XY(x, y) == [x |-> x, y |-> y]

\* -------------------------------------------------------------- rendering
\* the template string translate(tx, ty) scale((width/960)*scale)
\* translate(0, 240), kept as its interpolated fields; the scale factor is
\* the fraction num/den
Transform(tx, ty, w, scale) ==
  [translate |-> <<tx, ty>>, unit |-> "",
   scale |-> [num |-> w * scale, den |-> NativeWidth],
   then |-> <<0, OffsetY>>]

\* the same with px lengths, as assigned to containerRef.current.style
StyleTransform(tx, ty, w, scale) ==
  [translate |-> <<tx, ty>>, unit |-> "px",
   scale |-> [num |-> w * scale, den |-> NativeWidth],
   then |-> <<0, OffsetY>>]

NoStyle == [unit |-> "unset"]

\* -------------------------------------------------------------- index.tsx
IdxInit ==
  [scale |-> 1, translateX |-> 0, translateY |-> 0, isDragging |-> FALSE,
   dragStart |-> XY(0, 0), cursor |-> "default"]

\* c: the hook state the handler closes over; s: the hook state it updates
IdxOnMouseDownNoGuard(c, s, e) ==
  [s EXCEPT !.isDragging = TRUE, !.cursor = "grabbing",
            !.dragStart = XY(e.clientX, e.clientY)]

IdxOnMouseDown(c, s, e) ==
  IF c.scale <= 1 THEN s
  ELSE [s EXCEPT !.isDragging = TRUE, !.cursor = "grabbing",
                 !.dragStart = XY(e.clientX, e.clientY)]

IdxOnMouseMove(c, s, e) ==
  IF ~c.isDragging \/ c.scale <= 1 THEN s
  ELSE LET dx == e.clientX - c.dragStart.x
           dy == e.clientY - c.dragStart.y
       IN [s EXCEPT !.translateX = @ + dx, !.translateY = @ + dy,
                    !.dragStart = XY(e.clientX, e.clientY)]

IdxOnMouseUp(c, s) ==
  [s EXCEPT !.isDragging = FALSE,
            !.cursor = IF c.scale > 1 THEN "grab" ELSE "default"]

IdxOnMouseLeaveKeepsDrag(c, s) ==
  [s EXCEPT !.cursor = IF c.scale > 1 THEN "grab" ELSE "default"]

IdxOnMouseLeave(c, s) ==
  [s EXCEPT !.isDragging = IF c.isDragging THEN FALSE ELSE @,
            !.cursor = IF c.scale > 1 THEN "grab" ELSE "default"]

IdxOnDoubleClickKeepsTranslation(c, s, e, r) ==
  LET x == e.clientX - r.left
      y == e.clientY - r.top
  IN IF c.scale = MaxScale
     THEN [s EXCEPT !.scale = 1, !.cursor = "default"]
     ELSE [s EXCEPT !.translateX = 2 * c.translateX - x,
                    !.translateY = 2 * c.translateY - y,
                    !.scale = c.scale * 2, !.cursor = "grab"]

IdxOnDoubleClick(c, s, e, r) ==
  LET x == e.clientX - r.left
      y == e.clientY - r.top
  IN IF c.scale = MaxScale
     THEN [s EXCEPT !.translateX = 0, !.translateY = 0, !.scale = 1,
                    !.cursor = "default"]
     ELSE [s EXCEPT !.translateX = 2 * c.translateX - x,
                    !.translateY = 2 * c.translateY - y,
                    !.scale = c.scale * 2, !.cursor = "grab"]

IdxTransform(s, w) == Transform(s.translateX, s.translateY, w, s.scale)

\* -------------------------------------------------------------- part_000
PartInit ==
  [scale |-> 1, cursor |-> "default", isDragging |-> FALSE,
   translate |-> XY(0, 0), dragStart |-> XY(0, 0),
   initialTranslate |-> XY(0, 0), style |-> NoStyle]

\* the hook state of part_000: what a render captures and what re-renders
PartHooks(s) ==
  [scale |-> s.scale, cursor |-> s.cursor, isDragging |-> s.isDragging]

PartOnMouseDownKeepsDragStart(c, s, e, r) ==
  IF c.scale <= 1 THEN s
  ELSE [s EXCEPT !.isDragging = TRUE, !.cursor = "grabbing",
                 !.initialTranslate = s.translate]

\* c: captured hook state; s: hook state, refs and style; r: the container's
\* bounding box or NoRect
PartOnMouseDown(c, s, e, r) ==
  IF c.scale <= 1 THEN s
  ELSE LET t == [s EXCEPT !.isDragging = TRUE, !.cursor = "grabbing"]
       IN IF ~r.mounted THEN t
          ELSE [t EXCEPT !.dragStart = XY(e.clientX - r.left,
                                          e.clientY - r.top),
                         !.initialTranslate = s.translate]

\* kept: whether the DOM keeps the transform assigned to the svg's style;
\* its last function, translate(0, 240), has a length without unit, which a
\* CSS parser rejects, and the assignment then leaves the style as it was
PartOnMouseMove(c, s, e, r, w, kept) ==
  IF ~c.isDragging \/ c.scale <= 1 THEN s
  ELSE IF ~r.mounted THEN s
  ELSE LET dx == e.clientX - r.left - s.dragStart.x
           dy == e.clientY - r.top - s.dragStart.y
           tx == s.initialTranslate.x + dx
           ty == s.initialTranslate.y + dy
       IN [s EXCEPT !.translate = XY(tx, ty),
                    !.style = IF kept THEN StyleTransform(tx, ty, w, c.scale)
                              ELSE @]

PartOnMouseUpDefaultCursor(c, s) ==
  [s EXCEPT !.isDragging = FALSE, !.cursor = "default"]

PartOnMouseUp(c, s) ==
  [s EXCEPT !.isDragging = FALSE,
            !.cursor = IF c.scale > 1 THEN "grab" ELSE "default"]

PartOnMouseLeave(c, s) ==
  [s EXCEPT !.isDragging = IF c.isDragging THEN FALSE ELSE @,
            !.cursor = IF c.scale > 1 THEN "grab" ELSE "default"]

PartOnDoubleClickTo8(c, s, e, r) ==
  LET x == e.clientX - r.left
      y == e.clientY - r.top
  IN IF c.scale = 2 * MaxScale
     THEN [s EXCEPT !.translate = XY(0, 0), !.scale = 1,
                    !.cursor = "default"]
     ELSE [s EXCEPT !.translate = XY(2 * s.translate.x - x,
                                     2 * s.translate.y - y),
                    !.scale = c.scale * 2, !.cursor = "grab"]

\* r: the bounding box of e.currentTarget, the svg the handler is attached to
PartOnDoubleClick(c, s, e, r) ==
  LET x == e.clientX - r.left
      y == e.clientY - r.top
  IN IF c.scale = MaxScale
     THEN [s EXCEPT !.translate = XY(0, 0), !.scale = 1,
                    !.cursor = "default"]
     ELSE [s EXCEPT !.translate = XY(2 * s.translate.x - x,
                                     2 * s.translate.y - y),
                    !.scale = c.scale * 2, !.cursor = "grab"]

PartTransform(s, w) == Transform(s.translate.x, s.translate.y, w, s.scale)

\* -------------------------------------------------------------- data binding
\* the number of items of the dataset
MaxItems == 3

\* JavaScript numbers: finite integers, the two infinities and NaN
Num(n) == [inf |-> 0, n |-> n]
PosInfinity == [inf |-> 1, n |-> 0]
NegInfinity == [inf |-> -1, n |-> 0]
NaN == [inf |-> 2, n |-> 0]
\* a < b: false when either side is NaN
Less(a, b) ==
  /\ a # NaN
  /\ b # NaN
  /\ a.inf < b.inf \/ (a.inf = 0 /\ b.inf = 0 /\ a.n < b.n)

\* DataItem values: number | string
NumberValue(n) == [type |-> "number", num |-> Num(n), str |-> ""]
NaNValue == [type |-> "number", num |-> NaN, str |-> ""]
StringValue(t) == [type |-> "string", num |-> Num(0), str |-> t]
Undefined == [type |-> "undefined", num |-> Num(0), str |-> ""]

\* country codes are sequences of letters
Letters == {"u", "s", "f", "r", "U", "S", "F", "R"}
UpperLetter(ch) ==
  CASE ch = "u" -> "U" [] ch = "s" -> "S" [] ch = "f" -> "F"
    [] ch = "r" -> "R" [] OTHER -> ch
\* String.prototype.toUpperCase
ToUpperCase(code) == [k \in DOMAIN code |-> UpperLetter(code[k])]

Countries == {<<"u", "s">>, <<"U", "S">>, <<"U", "s">>, <<"F", "R">>}
Values == {NumberValue(-2), NumberValue(0), NumberValue(3), NaNValue,
           StringValue("n/a"), StringValue("")}
DataItems == [country : Countries, value : Values]

\* toValue: a string counts as 0
ToValue(item) ==
  IF item.value.type = "string" THEN Num(0) ELSE item.value.num

\* data.map(toValue)
ToValues(d) == [k \in DOMAIN d |-> ToValue(d[k])]

\* Math.min folds its arguments; a NaN argument makes the result NaN
RECURSIVE MathMinFrom(_, _)
MathMinFrom(acc, xs) ==
  IF xs = <<>> THEN acc
  ELSE MathMinFrom(IF acc = NaN \/ Head(xs) = NaN THEN NaN
                   ELSE IF Less(Head(xs), acc) THEN Head(xs) ELSE acc,
                   Tail(xs))

RECURSIVE MathMaxFrom(_, _)
MathMaxFrom(acc, xs) ==
  IF xs = <<>> THEN acc
  ELSE MathMaxFrom(IF acc = NaN \/ Head(xs) = NaN THEN NaN
                   ELSE IF Less(acc, Head(xs)) THEN Head(xs) ELSE acc,
                   Tail(xs))

MathMinFromZero(xs) == MathMinFrom(Num(0), xs)
MathMaxFromZero(xs) == MathMaxFrom(Num(0), xs)

\* Math.min(...xs): Infinity for no arguments
MathMin(xs) == MathMinFrom(PosInfinity, xs)
\* Math.max(...xs): -Infinity for no arguments
MathMax(xs) == MathMaxFrom(NegInfinity, xs)

RECURSIVE FromEntriesAsIs(_)
FromEntriesAsIs(items) ==
  IF items = <<>> THEN <<>>
  ELSE LET n == Len(items)
           rest == FromEntriesAsIs(SubSeq(items, 1, n - 1))
           key == items[n].country
       IN [k \in DOMAIN rest \cup {key} |->
             IF k = key THEN items[n].value ELSE rest[k]]

RECURSIVE FromEntriesCoerced(_)
FromEntriesCoerced(items) ==
  IF items = <<>> THEN <<>>
  ELSE LET n == Len(items)
           rest == FromEntriesCoerced(SubSeq(items, 1, n - 1))
           key == ToUpperCase(items[n].country)
       IN [k \in DOMAIN rest \cup {key} |->
             IF k = key
             THEN [type |-> "number",
                   num |-> IF items[n].value.type = "string" THEN Num(0)
                           ELSE items[n].value.num,
                   str |-> ""]
             ELSE rest[k]]

RECURSIVE FromEntriesFirstWins(_)
FromEntriesFirstWins(items) ==
  IF items = <<>> THEN <<>>
  ELSE LET n == Len(items)
           rest == FromEntriesFirstWins(SubSeq(items, 1, n - 1))
           key == ToUpperCase(items[n].country)
       IN [k \in DOMAIN rest \cup {key} |->
             IF k \in DOMAIN rest THEN rest[k] ELSE items[n].value]

\* Object.fromEntries over [country.toUpperCase(), value]: a later entry
\* replaces an earlier one with the same key
RECURSIVE FromEntries(_)
FromEntries(items) ==
  IF items = <<>> THEN <<>>
  ELSE LET n == Len(items)
           rest == FromEntries(SubSeq(items, 1, n - 1))
           key == ToUpperCase(items[n].country)
       IN [k \in DOMAIN rest \cup {key} |->
             IF k = key THEN items[n].value ELSE rest[k]]

\* countryValueMap[isoCode]
Lookup(m, code) == IF code \in DOMAIN m THEN m[code] ELSE Undefined

\* geoData.features: the bundled geometry table, ISO code (I) and name (N)
Features ==
  {[I |-> <<"U", "S">>, N |-> "United States"],
   [I |-> <<"F", "R">>, N |-> "France"],
   [I |-> <<"R", "U">>, N |-> "Russia"]}

IsoCodes == {f.I : f \in Features}

\* the CountryContext of a feature (color, prefix and suffix are props
\* passed through and left out)
Context(feature, m, lo, hi) ==
  [countryCode |-> feature.I, countryValue |-> Lookup(m, feature.I),
   countryName |-> feature.N, minValue |-> lo, maxValue |-> hi]

\* the result of tooltipTextFunction(context), kept as the call itself
TooltipTextOf(context) == [called |-> TRUE, context |-> context]
NoTooltipText == [called |-> FALSE, context |-> Undefined]

TooltipTextTruthy(context) ==
  IF \/ context.countryValue.type = "undefined"
     \/ context.countryValue.type = "number"
        /\ context.countryValue.num \in {Num(0), NaN}
     \/ context.countryValue.type = "string" /\ context.countryValue.str = ""
  THEN NoTooltipText
  ELSE TooltipTextOf(context)

\* the first argument of drawTooltip
TooltipText(context) ==
  IF context.countryValue.type = "undefined" THEN NoTooltipText
  ELSE TooltipTextOf(context)

ContextsOf(m, lo, hi) ==
  [code \in IsoCodes |->
     Context(CHOOSE f \in Features : f.I = code, m, lo, hi)]

\* the part of a render that prepares the data and the regions
Prepare(d) ==
  /\ data' = d
  /\ countryValueMap' = FromEntries(d)
  /\ minValue' = MathMin(ToValues(d))
  /\ maxValue' = MathMax(ToValues(d))
  /\ contexts' = ContextsOf(FromEntries(d), MathMin(ToValues(d)),
                            MathMax(ToValues(d)))
  /\ tooltips' = [code \in IsoCodes |->
                    TooltipText(ContextsOf(FromEntries(d),
                                           MathMin(ToValues(d)),
                                           MathMax(ToValues(d)))[code])]

\* -------------------------------------------------------------- the machine
Runs(v) == variant = v \/ variant = "both"

NoSession ==
  [open |-> FALSE, down |-> XY(0, 0), snapIdx |-> XY(0, 0),
   snapPart |-> XY(0, 0), moves |-> 0, last |-> XY(0, 0),
   pure |-> FALSE, coalesced |-> FALSE, fromIdle |-> FALSE, drags |-> 0,
   before |-> XY(0, 0)]

EventHandlersAlways(rich, handled, s) == handled

\* the svg carries the handlers only when richInteraction is set: without
\* them an event leaves the state s as it is
EventHandlers(rich, handled, s) == IF rich THEN handled ELSE s

Schedulers == {"flush", "lanes"}

InitFor(variants, rich) ==
  /\ variant \in variants
  /\ richInteraction = rich
  /\ scheduler \in Schedulers
  /\ styleKept \in IF variant = "idx" THEN {FALSE} ELSE BOOLEAN
  /\ width \in Widths
  /\ rect \in Rects
  /\ idx = IdxInit
  /\ idxView = IdxInit
  /\ gIdx = IdxTransform(IdxInit, width)
  /\ part = PartInit
  /\ partView = PartHooks(PartInit)
  /\ gPart = PartTransform(PartInit, width)
  /\ ev = [kind |-> "none", e |-> [clientX |-> 0, clientY |-> 0],
           mounted |-> TRUE]
  /\ prev = [idx |-> IdxInit, part |-> PartInit]
  /\ dbl = 0
  /\ steps = 0
  /\ sess = NoSession
  /\ data = <<>>
  /\ countryValueMap = FromEntries(<<>>)
  /\ minValue = MathMin(<<>>)
  /\ maxValue = MathMax(<<>>)
  /\ lastRender = "first"
  /\ contexts = ContextsOf(FromEntries(<<>>), MathMin(<<>>), MathMax(<<>>))
  /\ tooltips = [code \in IsoCodes |->
                   TooltipText(ContextsOf(FromEntries(<<>>), MathMin(<<>>),
                                          MathMax(<<>>))[code])]

InitWith(variants) == InitFor(variants, TRUE)

Init == InitWith({"idx", "part"})

\* the state part_000 was last rendered with: its refs and style as they
\* are, its hooks as the handlers captured them
PartRendered == [part EXCEPT !.scale = partView.scale,
                             !.cursor = partView.cursor,
                             !.isDragging = partView.isDragging]

\* React renders synchronously after the handler of a mousedown, mouseup or
\* dblclick that called a state setter (setIdx, setPart).  i and p are the
\* states with every queued update applied, iv and pv the states with the
\* updates of this handler alone applied to the last render.  A "flush"
\* render takes every queued update; a "lanes" render takes the updates of
\* this handler and leaves those queued by mousemove and mouseleave for a
\* later render.  The handlers of the new render capture the rendered
\* state, and a component rendered with a changed state has the transform
\* attribute of its map group rewritten.  A handler that returned before
\* any setter causes no render.
Commit(i, p, iv, pv, setIdx, setPart) ==
  LET ri == IF scheduler = "flush" THEN i ELSE iv
      rp == IF scheduler = "flush" THEN PartHooks(p) ELSE PartHooks(pv)
  IN /\ idx' = i
     /\ idxView' = IF setIdx THEN ri ELSE idxView
     /\ gIdx' = IF setIdx /\ ri # idxView THEN IdxTransform(ri, width)
                ELSE gIdx
     /\ part' = p
     /\ partView' = IF setPart THEN rp ELSE partView
     /\ gPart' = IF setPart /\ rp # partView
                 THEN PartTransform([p EXCEPT !.scale = rp.scale], width)
                 ELSE gPart

Handled(kind, e, mounted) ==
  /\ ev' = [kind |-> kind, e |-> e, mounted |-> mounted]
  /\ prev' = [idx |-> idx, part |-> part]
  /\ steps < MaxEvents
  /\ steps' = steps + 1
  /\ UNCHANGED <<variant, width, rect, richInteraction, scheduler, styleKept>>
  /\ UNCHANGED dataVars

NoEvent == [clientX |-> 0, clientY |-> 0]

\* mounted: whether containerRef.current is the svg element
PointerDown(e, mounted) ==
  LET i == IF Runs("idx")
           THEN EventHandlers(richInteraction,
                              IdxOnMouseDown(idxView, idx, e), idx)
           ELSE idx
      p == IF Runs("part")
           THEN EventHandlers(richInteraction,
                              PartOnMouseDown(partView, part, e,
                                IF mounted THEN rect ELSE NoRect), part)
           ELSE part
  IN /\ Commit(i, p, IdxOnMouseDown(idxView, idxView, e),
               PartOnMouseDown(partView, PartRendered, e,
                               IF mounted THEN rect ELSE NoRect),
               Runs("idx") /\ richInteraction /\ idxView.scale > 1,
               Runs("part") /\ richInteraction /\ partView.scale > 1)
     /\ Handled("down", e, mounted)
     /\ dbl' = -1
     /\ sess' = IF idxView.scale > 1 \/ partView.scale > 1
                THEN [open |-> TRUE, down |-> XY(e.clientX, e.clientY),
                      snapIdx |-> XY(idx.translateX, idx.translateY),
                      snapPart |-> part.translate, moves |-> 0,
                      last |-> XY(e.clientX, e.clientY),
                      pure |-> mounted, coalesced |-> FALSE,
                      fromIdle |-> ~idx.isDragging /\ ~part.isDragging,
                      drags |-> IF sess.drags < 2 THEN sess.drags + 1 ELSE 2,
                      before |-> sess.down]
                ELSE [sess EXCEPT !.pure = FALSE]

PointerMove(e, mounted) ==
  LET i == IF Runs("idx")
           THEN EventHandlers(richInteraction,
                              IdxOnMouseMove(idxView, idx, e), idx)
           ELSE idx
      p == IF Runs("part")
           THEN EventHandlers(richInteraction,
                              PartOnMouseMove(partView, part, e,
                                IF mounted THEN rect ELSE NoRect, width,
                                styleKept),
                              part)
           ELSE part
  IN /\ idx' = i
     /\ part' = p
     /\ UNCHANGED <<idxView, gIdx, partView, gPart>>
     /\ Handled("move", e, mounted)
     /\ dbl' = -1
     /\ sess' = [sess EXCEPT !.moves = IF @ < 2 THEN @ + 1 ELSE @,
                             !.last = XY(e.clientX, e.clientY),
                             !.pure = @ /\ mounted /\ sess.open,
                             !.coalesced = @ \/ idxView # idx]

\* the caller renders the component again: the handlers of the new render
\* capture the current hook state and the transform attribute of the map
\* group is rewritten from the current translation and scale
Rerender ==
  /\ idxView' = idx
  /\ gIdx' = IdxTransform(idx, width)
  /\ partView' = PartHooks(part)
  /\ gPart' = PartTransform(part, width)
  /\ UNCHANGED <<variant, width, rect, richInteraction, scheduler, styleKept,
                 idx, part, ev, prev, dbl, steps, sess>>

\* React re-renders after the state updates of a mousemove or a mouseleave,
\* whose renders it defers: only a component with queued updates renders
Render ==
  /\ idxView # idx \/ partView # PartHooks(part)
  /\ idxView' = idx
  /\ gIdx' = IF idxView # idx THEN IdxTransform(idx, width) ELSE gIdx
  /\ partView' = PartHooks(part)
  /\ gPart' = IF partView # PartHooks(part) THEN PartTransform(part, width)
              ELSE gPart
  /\ UNCHANGED <<variant, width, rect, richInteraction, scheduler, styleKept,
                 idx, part, ev, prev, dbl, steps, sess>>
  /\ UNCHANGED dataVars

PointerUp ==
  LET i == IF Runs("idx")
           THEN EventHandlers(richInteraction,
                              IdxOnMouseUp(idxView, idx), idx)
           ELSE idx
      p == IF Runs("part")
           THEN EventHandlers(richInteraction,
                              PartOnMouseUp(partView, part), part)
           ELSE part
  IN /\ Commit(i, p, IdxOnMouseUp(idxView, idxView),
               PartOnMouseUp(partView, PartRendered),
               Runs("idx") /\ richInteraction,
               Runs("part") /\ richInteraction)
     /\ Handled("up", NoEvent, TRUE)
     /\ dbl' = -1
     /\ sess' = [sess EXCEPT !.open = FALSE, !.pure = @ /\ sess.open]

PointerLeave ==
  LET i == IF Runs("idx")
           THEN EventHandlers(richInteraction,
                              IdxOnMouseLeave(idxView, idx), idx)
           ELSE idx
      p == IF Runs("part")
           THEN EventHandlers(richInteraction,
                              PartOnMouseLeave(partView, part), part)
           ELSE part
  IN /\ idx' = i
     /\ part' = p
     /\ UNCHANGED <<idxView, gIdx, partView, gPart>>
     /\ Handled("leave", NoEvent, TRUE)
     /\ dbl' = -1
     /\ sess' = [sess EXCEPT !.open = FALSE, !.pure = FALSE]

\* the handler measures e.currentTarget, the svg it is attached to, and not
\* containerRef
DoubleClick(e) ==
  LET i == IF Runs("idx")
           THEN EventHandlers(richInteraction,
                              IdxOnDoubleClick(idxView, idx, e, rect), idx)
           ELSE idx
      p == IF Runs("part")
           THEN EventHandlers(richInteraction,
                              PartOnDoubleClick(partView, part, e, rect), part)
           ELSE part
  IN /\ Commit(i, p, IdxOnDoubleClick(idxView, idxView, e, rect),
               PartOnDoubleClick(partView, PartRendered, e, rect),
               Runs("idx") /\ richInteraction,
               Runs("part") /\ richInteraction)
     /\ Handled("dblclick", e, TRUE)
     /\ dbl' = IF dbl >= 0 /\ dbl < 3 THEN dbl + 1 ELSE -1
     /\ sess' = [sess EXCEPT !.pure = FALSE]

Next ==
  \/ \E e \in Events : PointerDown(e, TRUE)
  \/ \E e \in Events : PointerMove(e, TRUE)
  \/ Render
  \/ PointerUp
  \/ PointerLeave
  \/ \E e \in Events : DoubleClick(e)

Spec == Init /\ [][Next]_vars

\* the caller renders the component with one more item in the dataset
RenderWithItem(item) ==
  /\ Len(data) < MaxItems
  /\ Prepare(Append(data, item))
  /\ lastRender' = "item"
  /\ Rerender

\* the caller renders the component with an empty dataset
RenderEmpty ==
  /\ data # <<>>
  /\ Prepare(<<>>)
  /\ lastRender' = "empty"
  /\ Rerender

NextData ==
  \/ \E item \in DataItems : RenderWithItem(item)
  \/ RenderEmpty

\* the component rendered with one dataset after another: no pointer event
\* is handled, so no update is ever queued and no style assigned, and the
\* scheduling policy and the DOM's treatment of the style never act
InitData == Init /\ scheduler = "flush" /\ ~styleKept

SpecData == InitData /\ [][NextData]_vars

\* part_000 with containerRef.current possibly null when a handler runs
InitDetached == InitWith({"part"})

NextDetached ==
  \/ \E e \in Events, m \in BOOLEAN : PointerDown(e, m)
  \/ \E e \in Events, m \in BOOLEAN : PointerMove(e, m)
  \/ Render
  \/ PointerUp
  \/ PointerLeave
  \/ \E e \in Events : DoubleClick(e)

SpecDetached == InitDetached /\ [][NextDetached]_vars

\* the component rendered without richInteraction
InitStatic == InitFor({"idx", "part"}, FALSE)

NextStatic ==
  \/ \E e \in Events : PointerDown(e, TRUE)
  \/ \E e \in Events : PointerMove(e, TRUE)
  \/ PointerUp
  \/ PointerLeave
  \/ \E e \in Events : DoubleClick(e)

SpecStatic == InitStatic /\ [][NextStatic]_vars

\* index.tsx and part_000 mounted side by side and fed the same events
InitBoth == InitWith({"both"})

SpecBoth == InitBoth /\ [][Next]_vars

\* -------------------------------------------------------------- properties
IdxTranslation(i) == XY(i.translateX, i.translateY)

\* the click or pointer position relative to the container
Relative(e) == XY(e.clientX - rect.left, e.clientY - rect.top)

Plus(a, b) == XY(a.x + b.x, a.y + b.y)
Minus(a, b) == XY(a.x - b.x, a.y - b.y)
Twice(a) == XY(2 * a.x, 2 * a.y)
Origin == XY(0, 0)
Pointer(e) == XY(e.clientX, e.clientY)

\* C1: starting from the initial state, double-clicks alone give scale 2,
\* then 4, then 1, and the third one leaves the translation at (0,0)
\* wherever the clicks were.
DoubleClickSequence ==
  /\ Runs("idx") =>
       /\ dbl = 1 => idx.scale = 2
       /\ dbl = 2 => idx.scale = 4
       /\ dbl = 3 => idx.scale = 1 /\ IdxTranslation(idx) = Origin
  /\ Runs("part") =>
       /\ dbl = 1 => part.scale = 2
       /\ dbl = 2 => part.scale = 4
       /\ dbl = 3 => part.scale = 1 /\ part.translate = Origin

\* the third double-click, arriving with a translation that is not (0,0)
DoubleClickWrapped ==
  /\ dbl = 3
  /\ \/ variant = "idx" /\ IdxTranslation(prev.idx) # Origin
     \/ variant = "part" /\ prev.part.translate # Origin

\* C2: at scale <= 1 none of pointerDown, pointerMove, pointerUp and
\* pointerLeave changes the translation, and pointerDown does not change
\* isDragging.
NoPanUnzoomed ==
  ev.kind \in {"down", "move", "up", "leave"} =>
    /\ Runs("idx") /\ prev.idx.scale <= 1 =>
         /\ IdxTranslation(idx) = IdxTranslation(prev.idx)
         /\ ev.kind = "down" => idx.isDragging = prev.idx.isDragging
    /\ Runs("part") /\ prev.part.scale <= 1 =>
         /\ part.translate = prev.part.translate
         /\ ev.kind = "down" => part.isDragging = prev.part.isDragging

\* a pointerMove at scale 1 while isDragging is still set from a drag that
\* a double-click zoomed out of
MoveUnzoomedWhileDragging ==
  /\ ev.kind = "move"
  /\ \/ variant = "idx" /\ prev.idx.scale = 1 /\ prev.idx.isDragging
     \/ variant = "part" /\ prev.part.scale = 1 /\ prev.part.isDragging

\* C3: after every pointerMove of a drag at scale > 1 the translation is the
\* translation at the pointerDown plus (pointer position - pointerDown
\* position).
MoveFollowsSnapshot ==
  ev.kind = "move" /\ sess.open =>
    /\ Runs("idx") /\ prev.idx.isDragging /\ prev.idx.scale > 1 =>
         IdxTranslation(idx) =
           Plus(sess.snapIdx, Minus(Pointer(ev.e), sess.down))
    /\ Runs("part") /\ prev.part.isDragging /\ prev.part.scale > 1 =>
         part.translate =
           Plus(sess.snapPart, Minus(Pointer(ev.e), sess.down))

\* C4: at the pointerUp of a drag that held only pointerMove events, the
\* translation is the translation at the pointerDown plus (last pointer
\* position - pointerDown position), whatever the moves in between were and
\* however they were batched.
DragEndsAtLastPointer ==
  ev.kind = "up" /\ sess.pure /\ sess.moves >= 1 =>
    /\ Runs("idx") =>
         IdxTranslation(idx) = Plus(sess.snapIdx, Minus(sess.last, sess.down))
    /\ Runs("part") =>
         part.translate = Plus(sess.snapPart, Minus(sess.last, sess.down))

\* C5: a pointerLeave leaves the controller Idle; a pointerLeave or pointerUp
\* received in Idle leaves it Idle with scale and translation unchanged.
LeaveEndsDrag ==
  /\ ev.kind = "leave" =>
       /\ Runs("idx") => ~idx.isDragging
       /\ Runs("part") => ~part.isDragging
  /\ ev.kind \in {"leave", "up"} =>
       /\ Runs("idx") /\ ~prev.idx.isDragging =>
            /\ ~idx.isDragging
            /\ idx.scale = prev.idx.scale
            /\ IdxTranslation(idx) = IdxTranslation(prev.idx)
       /\ Runs("part") /\ ~prev.part.isDragging =>
            /\ ~part.isDragging
            /\ part.scale = prev.part.scale
            /\ part.translate = prev.part.translate

\* a pointerLeave that arrived while Dragging
LeftWhileDragging ==
  /\ ev.kind = "leave"
  /\ \/ variant = "idx" /\ prev.idx.isDragging
     \/ variant = "part" /\ prev.part.isDragging

\* C6: a pointerDown, pointerMove or doubleClick handled while the
\* container's bounding box cannot be obtained changes nothing.
NoRectIsNoOp ==
  ev.kind \in {"down", "move", "dblclick"} /\ ~ev.mounted => part = prev.part

\* C7 as stated: a double-click at a scale other than 4 doubles the scale
\* and sets the translation to 2 * old translation - click position relative
\* to the container, the old translation being the one the events before
\* the double-click left.
ZoomInRecentres ==
  ev.kind = "dblclick" =>
    /\ Runs("idx") /\ prev.idx.scale # MaxScale =>
         /\ idx.scale = 2 * prev.idx.scale
         /\ IdxTranslation(idx) =
              Minus(Twice(IdxTranslation(prev.idx)), Relative(ev.e))
    /\ Runs("part") /\ prev.part.scale # MaxScale =>
         /\ part.scale = 2 * prev.part.scale
         /\ part.translate = Minus(Twice(prev.part.translate), Relative(ev.e))

\* C8: the scale is always 1, 2 or 4.
ScaleRange ==
  /\ idx.scale \in {1, 2, 4}
  /\ part.scale \in {1, 2, 4}

\* a double-click at scale 4 that reset the scale to 1
WrappedToOne ==
  /\ ev.kind = "dblclick"
  /\ \/ variant = "idx" /\ prev.idx.scale = 4 /\ idx.scale = 1
     \/ variant = "part" /\ prev.part.scale = 4 /\ part.scale = 1

\* C9: once every event is handled and rendered, the transform of the map
\* group on screen is the one computed from the current translation and
\* scale, and no other transform is set.
DisplayedTransformCurrent ==
  idxView = idx /\ partView = PartHooks(part) =>
    /\ Runs("idx") => gIdx = IdxTransform(idx, width)
    /\ Runs("part") =>
         /\ gPart = PartTransform(part, width)
         /\ part.style = NoStyle

\* the value an item contributes to the range: its number, or 0 for a string
RangeValue(item) ==
  IF item.value.type = "number" THEN item.value.num ELSE Num(0)

\* a <= b: false when either side is NaN
LessEq(a, b) == a # NaN /\ b # NaN /\ (a = b \/ Less(a, b))

\* some item of the dataset has the value NaN
HasNaN == \E k \in DOMAIN data : data[k].value.num = NaN

\* v is one of the values the range was computed over: it lies between
\* minValue and maxValue, which are both NaN as soon as one value is NaN
InRange(v) ==
  IF HasNaN THEN minValue = NaN /\ maxValue = NaN
  ELSE LessEq(minValue, v) /\ LessEq(v, maxValue)

\* C10 as stated: for a dataset of at least one item, minValue <= v <=
\* maxValue for every numeric value v of the dataset, and minValue and
\* maxValue are each the range value of some item.
RangeBoundsValues ==
  Len(data) >= 1 =>
    /\ \A k \in DOMAIN data :
         data[k].value.type = "number" =>
           /\ LessEq(minValue, data[k].value.num)
           /\ LessEq(data[k].value.num, maxValue)
    /\ \E k \in DOMAIN data : minValue = RangeValue(data[k])
    /\ \E k \in DOMAIN data : maxValue = RangeValue(data[k])

\* C10 amended: for a dataset of at least one item none of whose values is
\* NaN, minValue <= v <= maxValue for every numeric value v and both are the
\* range value of some item; when some value is NaN, minValue and maxValue
\* are both NaN.
RangeBoundsValuesUnlessNaN ==
  Len(data) >= 1 =>
    /\ ~HasNaN =>
         /\ \A k \in DOMAIN data :
              data[k].value.type = "number" =>
                /\ LessEq(minValue, data[k].value.num)
                /\ LessEq(data[k].value.num, maxValue)
         /\ \E k \in DOMAIN data : minValue = RangeValue(data[k])
         /\ \E k \in DOMAIN data : maxValue = RangeValue(data[k])
    /\ HasNaN => minValue = NaN /\ maxValue = NaN

\* a dataset of positive numbers and a string, whose minimum 0 is the
\* string's
RangeOverStringAndNumbers ==
  /\ Len(data) = MaxItems
  /\ \E k \in DOMAIN data : data[k].value.type = "string"
  /\ \E k \in DOMAIN data : data[k].value.type = "number"
  /\ \A k \in DOMAIN data :
       data[k].value.type = "number" => Less(Num(0), data[k].value.num)
  /\ minValue = Num(0)

\* two country codes that are equal up to letter case
LowerLetter(ch) ==
  CASE ch = "U" -> "u" [] ch = "S" -> "s" [] ch = "F" -> "f"
    [] ch = "R" -> "r" [] OTHER -> ch
EqualUpToCase(a, b) ==
  /\ Len(a) = Len(b)
  /\ \A k \in DOMAIN a : LowerLetter(a[k]) = LowerLetter(b[k])

\* the items of the dataset for a country code, and the last of them
Matching(code) ==
  {k \in DOMAIN data : EqualUpToCase(data[k].country, code)}
LastMatching(code) ==
  CHOOSE k \in Matching(code) : \A j \in Matching(code) : j <= k

IsUpperCase(code) == \A k \in DOMAIN code : code[k] \in {"U", "S", "F", "R"}

StringValueKept ==
  /\ \A code \in IsoCodes :
       Matching(code) # {} /\ data[LastMatching(code)].value.type = "string"
         => /\ Lookup(countryValueMap, code) = data[LastMatching(code)].value
            /\ contexts[code].countryValue = data[LastMatching(code)].value
  /\ \A k \in DOMAIN data :
       data[k].value.type = "string" => InRange(Num(0))

\* a non-empty string that is a country's value and the minimum 0 of a range
\* whose numbers are positive
StringKeptAndZeroInRange ==
  /\ Matching(<<"U", "S">>) # {}
  /\ contexts[<<"U", "S">>].countryValue = StringValue("n/a")
  /\ \E k \in DOMAIN data : data[k].value.type = "number"
  /\ \A k \in DOMAIN data :
       data[k].value.type = "number" => Less(Num(0), data[k].value.num)
  /\ minValue = Num(0)

\* C15: for an empty dataset minValue is +Infinity and maxValue -Infinity,
\* so minValue > maxValue, and every context carries these two values.
EmptyDatasetRange ==
  /\ data = <<>> =>
       /\ minValue = PosInfinity
       /\ maxValue = NegInfinity
       /\ Less(maxValue, minValue)
  /\ \A code \in IsoCodes :
       /\ contexts[code].minValue = minValue
       /\ contexts[code].maxValue = maxValue

\* a render with an empty dataset after renders with items
EmptyDatasetRendered ==
  /\ lastRender = "empty"
  /\ data = <<>>
  /\ \A code \in IsoCodes :
       /\ contexts[code].minValue = PosInfinity
       /\ contexts[code].maxValue = NegInfinity
       /\ contexts[code].countryValue = Undefined

\* C16: the tooltip text function is called for a country exactly when the
\* dataset has an entry for its code, also when the value is 0 or "".
TooltipIffEntry ==
  \A code \in IsoCodes :
    /\ tooltips[code].called <=> Matching(code) # {}
    /\ tooltips[code].called => tooltips[code].context = contexts[code]

\* one country with value 0, one with value "", one absent from the dataset
TooltipForZeroAndEmpty ==
  /\ contexts[<<"U", "S">>].countryValue = NumberValue(0)
  /\ contexts[<<"F", "R">>].countryValue = StringValue("")
  /\ tooltips[<<"U", "S">>].called
  /\ tooltips[<<"F", "R">>].called
  /\ ~tooltips[<<"R", "U">>].called

\* C20: of several items whose codes are equal up to letter case the lookup
\* and the context keep the value of the last, and the range covers every
\* item, the overridden ones too.
LastDuplicateWins ==
  /\ \A code \in IsoCodes :
       Matching(code) # {} =>
         /\ Lookup(countryValueMap, code) = data[LastMatching(code)].value
         /\ contexts[code].countryValue = data[LastMatching(code)].value
  /\ \A k \in DOMAIN data : InRange(RangeValue(data[k]))

\* "us" with -2 overridden by "US" with 3: the country's value is 3 and the
\* minimum is still -2
OverriddenItemInRange ==
  /\ Len(data) = 2
  /\ data[1] = [country |-> <<"u", "s">>, value |-> NumberValue(-2)]
  /\ data[2] = [country |-> <<"U", "S">>, value |-> NumberValue(3)]
  /\ contexts[<<"U", "S">>].countryValue = NumberValue(3)
  /\ minValue = Num(-2)

\* C12: a pointerDown in Idle at scale > 1 enters Dragging with the cursor
\* "grabbing" and records the pointer position (and, in part_000, the
\* current translation); the first pointerMove after it moves the
\* translation by its distance from that pointerDown.
DownStartsDrag ==
  /\ ev.kind = "down" =>
       /\ Runs("idx") /\ ~prev.idx.isDragging /\ prev.idx.scale > 1 =>
            /\ idx.isDragging
            /\ idx.cursor = "grabbing"
            /\ idx.dragStart = Pointer(ev.e)
       /\ Runs("part") /\ ~prev.part.isDragging /\ prev.part.scale > 1 =>
            /\ part.isDragging
            /\ part.cursor = "grabbing"
            /\ part.dragStart = Relative(ev.e)
            /\ part.initialTranslate = prev.part.translate
  /\ ev.kind = "move" /\ sess.open /\ sess.pure /\ sess.moves = 1 =>
       /\ Runs("idx") =>
            IdxTranslation(idx) =
              Plus(sess.snapIdx, Minus(Pointer(ev.e), sess.down))
       /\ Runs("part") =>
            part.translate =
              Plus(sess.snapPart, Minus(Pointer(ev.e), sess.down))

\* the first move of a second drag that started in Idle at another position
\* than the first drag
FirstMoveOfSecondDrag ==
  /\ ev.kind = "move"
  /\ sess.open /\ sess.pure /\ sess.moves = 1
  /\ sess.fromIdle
  /\ sess.drags = 2
  /\ sess.before # sess.down
  /\ Pointer(ev.e) # sess.down

\* C13: after a pointerUp or pointerLeave the cursor is "grab" at scale > 1
\* and "default" otherwise, and scale and translation are as before.
CursorAfterRelease ==
  ev.kind \in {"up", "leave"} =>
    /\ Runs("idx") =>
         /\ idx.cursor = IF idx.scale > 1 THEN "grab" ELSE "default"
         /\ idx.scale = prev.idx.scale
         /\ IdxTranslation(idx) = IdxTranslation(prev.idx)
    /\ Runs("part") =>
         /\ part.cursor = IF part.scale > 1 THEN "grab" ELSE "default"
         /\ part.scale = prev.part.scale
         /\ part.translate = prev.part.translate

\* a pointerUp that ended a drag at scale > 1
ReleasedWhileZoomed ==
  /\ ev.kind = "up"
  /\ \/ variant = "idx" /\ prev.idx.isDragging /\ idx.cursor = "grab"
     \/ variant = "part" /\ prev.part.isDragging /\ part.cursor = "grab"

\* C19: without richInteraction no handler is attached, so whatever events
\* arrive the state stays initial: scale 1, translation (0, 0), not
\* dragging, cursor "default", and the map group keeps its first transform.
StaticStaysInitial ==
  ~richInteraction =>
    /\ idx = IdxInit
    /\ part = PartInit
    /\ idx.scale = 1 /\ IdxTranslation(idx) = Origin
    /\ ~idx.isDragging /\ idx.cursor = "default"
    /\ part.scale = 1 /\ part.translate = Origin
    /\ ~part.isDragging /\ part.cursor = "default"
    /\ gIdx = IdxTransform(IdxInit, width)
    /\ gPart = PartTransform(PartInit, width)

\* two double-clicks arrived at a map rendered without richInteraction
StaticDoubleClickedTwice ==
  /\ ~richInteraction
  /\ ev.kind = "dblclick"
  /\ dbl = 2

\* C17 as stated: fed the same events, index.tsx and part_000 agree on
\* drag flag, scale, cursor and translation whenever no render is pending.
VariantsAgree ==
  variant = "both" /\ idxView = idx /\ partView = PartHooks(part) =>
    /\ idx.isDragging = part.isDragging
    /\ idx.scale = part.scale
    /\ idx.cursor = part.cursor
    /\ IdxTranslation(idx) = part.translate

\* C18 as stated: the cursor is "grabbing" exactly while dragging, dragging
\* happens only at scale > 1, and otherwise the cursor is "grab" at
\* scale > 1 and "default" at scale 1.
CursorAgreesWithState ==
  /\ Runs("idx") =>
       /\ idx.cursor = "grabbing" <=> idx.isDragging
       /\ idx.isDragging => idx.scale > 1
       /\ ~idx.isDragging =>
            idx.cursor = IF idx.scale > 1 THEN "grab" ELSE "default"
  /\ Runs("part") =>
       /\ part.cursor = "grabbing" <=> part.isDragging
       /\ part.isDragging => part.scale > 1
       /\ ~part.isDragging =>
            part.cursor = IF part.scale > 1 THEN "grab" ELSE "default"

====
